---- MODULE Spec2Model ----
(***************************************************************************)
(* Ensemble trading system: the ensemble signal combiner                   *)
(* (portfolio_manager.py, PortfolioManager) and the event-driven backtest  *)
(* simulator (backtest_engine.py, BacktestEngine).                         *)
(*                                                                         *)
(* Floating-point values are modelled as exact numbers: prices, cash and   *)
(* share counts as reduced rationals <<numerator, denominator>>, z-scores  *)
(* as num * sqrt(k / q) with integer num, k, q (the square root is never   *)
(* evaluated: sums of such terms are compared by squaring).  Every float  *)
(* is a tuple: << >> is NaN, <<x>> an integer-valued raw score, <<n, d>>   *)
(* a rational, <<num, k, q>> a z-score.  An Optional is a set of at most   *)
(* one element, None the empty set.                                        *)
(***************************************************************************)
EXTENDS Integers, Sequences, FiniteSets, TLC

VARIABLES
    \* ---- PortfolioManager and the inputs of generate_ensemble_signals
    data,                \* index of the market data: sequence of (date, ticker) rows
    strategy_out,        \* what each strategy's generate_signals(data) returns
    strategies,          \* self.strategies: sequence of strategy names
    top_n_assets,        \* self.config.top_n_assets
    strategy_signals,    \* self.strategy_signals
    combined_signals,    \* self.combined_signals
    correlation_matrix,  \* self.correlation_matrix
    pm_result,           \* outcome of the last generate_ensemble_signals call
    pm_calls,            \* number of generate_ensemble_signals calls made
    pm_query             \* the last query made since then, with what it returned

pm_vars == <<data, strategy_out, strategies, top_n_assets, strategy_signals,
             combined_signals, correlation_matrix, pm_result, pm_calls, pm_query>>

VARIABLES
    \* ---- BacktestEngine and the inputs of run
    market,              \* data: date -> (ticker -> close) for the tickers with a row
    signals,             \* signals: date -> (ticker -> weight); no rows: the empty map
    initial_capital,     \* self.initial_capital
    commission,          \* self.commission
    slippage,            \* self.slippage
    equity_curve,        \* self.equity_curve
    daily_returns,       \* self.daily_returns
    positions_history,   \* self.positions_history
    trades,              \* self.trades
    cash,                \* run's local cash
    positions,           \* run's local positions dict, in insertion order
    portfolio_value,     \* run's local portfolio_value
    i,                   \* number of dates the loop of run has consumed
    equity_df,           \* the DataFrame the last completed run returned
    bt_pc,               \* where run is: new, running, returned, or the exception raised
    bt_runs,             \* number of run calls started on this engine
    metrics              \* what get_performance_metrics returned since the last run began

bt_vars == <<market, signals, initial_capital, commission, slippage, equity_curve,
             daily_returns, positions_history, trades, cash, positions,
             portfolio_value, i, equity_df, bt_pc, bt_runs, metrics>>

VARIABLES
    \* ---- S3DataLoader.load_csv_from_s3 and its environment
    s3_object,           \* the CSV text of the object in the bucket, None when there is none
    cache_file,          \* the local cache file: None, or its frame text and mtime
    clock,               \* pd.Timestamp.now(), in hours
    s3_requests,         \* number of get_object requests made
    load_args,           \* use_cache and cache_ttl_hours of the last call
    load_result,         \* what the last call returned, or the exception it raised
    load_calls           \* number of load_csv_from_s3 calls made

s3_vars == <<s3_object, cache_file, clock, s3_requests, load_args, load_result, load_calls>>

VARIABLES
    \* ---- the normalisation of one strategy's column in binary floating point
    raw_column,          \* combined[col]: the raw scores of one strategy
    normalized_column    \* combined[f'{col}_normalized'], None before it is computed

col_vars == <<raw_column, normalized_column>>

vars == <<pm_vars, bt_vars, s3_vars, col_vars>>

NaN == << >>
None == {}
Some(x) == {x}
The(opt) == CHOOSE x \in opt : TRUE

\* no loader in the specifications of the other components
S3Idle ==
    /\ s3_object = None
    /\ cache_file = None
    /\ clock = 0
    /\ s3_requests = 0
    /\ load_args = None
    /\ load_result = None
    /\ load_calls = 0

\* no single column in the specifications of the other components
ColIdle ==
    /\ raw_column = << >>
    /\ normalized_column = None

\* ------------------------------------------------------------------ bounds
MaxRows == 2       \* rows of the market data, SpecPM
MaxRowsOne == 3    \* rows of the market data, SpecPMOne (a single strategy)
MaxTopN == 2       \* largest top_n_assets
MaxCalls == 2      \* calls of generate_ensemble_signals on one manager
MaxDates == 2      \* distinct dates of the market data given to run
MaxRuns == 2       \* calls of run on one engine
MaxLoads == 2      \* calls of load_csv_from_s3
MaxClock == 2      \* hours that pass while the loader is used
MaxTtl == 2        \* largest cache_ttl_hours
Precision == 3     \* bits of the significand of a float, SpecColumn (a double has 53)
MaxObs == 3        \* observations of the single column, SpecColumn

Assets == {"A", "B"}
Dates == {1, 2}
ScoreValues == {<<-1>>, <<1>>, NaN}
StrategyLists == {<< >>, <<"s1">>, <<"s1", "s2">>}
TopNValues == -1 .. MaxTopN

\* ------------------------------------------------------- exact arithmetic
Abs(x) == IF x < 0 THEN -x ELSE x

Sgn(x) == IF x > 0 THEN 1 ELSE IF x < 0 THEN -1 ELSE 0

RECURSIVE Gcd(_, _)
Gcd(a, b) == IF b = 0 THEN a ELSE Gcd(b, a % b)

\* the rational n/d in lowest terms with a positive denominator
Rat(n, d) ==
    LET g == Gcd(Abs(n), Abs(d))
        s == IF d < 0 THEN -1 ELSE 1
    IN  <<(s * n) \div g, (s * d) \div g>>

RInt(n) == <<n, 1>>
RAdd(x, y) ==
    LET g == Gcd(x[2], y[2])
    IN  Rat(x[1] * (y[2] \div g) + y[1] * (x[2] \div g), (x[2] \div g) * y[2])
RNeg(x) == <<-x[1], x[2]>>
RSub(x, y) == RAdd(x, RNeg(y))
RMul(x, y) ==
    LET a == Rat(x[1], y[2])
        b == Rat(y[1], x[2])
    IN  <<a[1] * b[1], a[2] * b[2]>>
RDiv(x, y) == RMul(x, Rat(y[2], y[1]))
RAbs(x) == <<Abs(x[1]), x[2]>>
RLess(x, y) == x[1] * y[2] < y[1] * x[2]
RLeq(x, y) == x[1] * y[2] <= y[1] * x[2]

\* a sequence given by a formula, with its elements computed once
Strict(s) == << >> \o s

RECURSIVE SeqSum(_)
SeqSum(s) == IF s = << >> THEN 0 ELSE Head(s) + SeqSum(Tail(s))

RECURSIVE RSeqSum(_)
RSeqSum(s) == IF s = << >> THEN RInt(0) ELSE RAdd(Head(s), RSeqSum(Tail(s)))

\* ====================================================================
\* PortfolioManager.generate_ensemble_signals
\* ====================================================================

Key(r) == <<r.date, r.ticker>>
KeysOf(table) == {Key(table[j]) : j \in 1 .. Len(table)}

\* the tables a caller passes as market data: unique (date, ticker) keys,
\* dates ascending, tickers of one date in any order
DataTables(maxRows) ==
    {t \in UNION {[1 .. n -> [date : Dates, ticker : Assets]] : n \in 1 .. maxRows} :
        /\ \A j, k \in 1 .. Len(t) : j < k => Key(t[j]) # Key(t[k])
        /\ \A j, k \in 1 .. Len(t) : j < k => t[j].date <= t[k].date}

\* what a strategy may return for a data table: one signal (possibly NaN) per
\* row of the data, or the same without the data's last row
SignalTables(d) ==
    LET Rows(idx) == {[j \in 1 .. Len(idx) |->
                          [date |-> idx[j].date, ticker |-> idx[j].ticker, signal |-> f[j]]] :
                      f \in [1 .. Len(idx) -> ScoreValues]}
    IN  Rows(d) \cup Rows(SubSeq(d, 1, Len(d) - 1))

\* pd.concat(all_signals, axis=1): the outer join of the strategies' indexes.
\* With sort=False the result keeps the first table's rows in their order and
\* appends, table by table, the rows not seen before.
RECURSIVE ConcatIndex(_)
ConcatIndex(tables) ==
    IF tables = << >> THEN << >>
    ELSE LET front == Strict(ConcatIndex(SubSeq(tables, 1, Len(tables) - 1)))
             last == tables[Len(tables)]
             seen == KeysOf(front)
             fresh == SelectSeq(last, LAMBDA r : Key(r) \notin seen)
         IN  front \o [j \in 1 .. Len(fresh) |->
                          [date |-> fresh[j].date, ticker |-> fresh[j].ticker]]

\* a strategy's column at a row of the joined index: NaN where the strategy's
\* table has no such row
Lookup(table, key) ==
    IF key \in KeysOf(table)
    THEN table[CHOOSE j \in 1 .. Len(table) : Key(table[j]) = key].signal
    ELSE NaN

\* Series.mean() and Series.std() skip NaN; std is the sample deviation
\* (ddof = 1).  Count, Total and Spread = n * sum(x^2) - sum(x)^2 carry
\* them exactly: mean = Total / n, std^2 = Spread / (n * (n - 1)).
Valid(col) == SelectSeq(col, LAMBDA v : v # NaN)
Count(col) == Len(Valid(col))
Total(col) == SeqSum([j \in 1 .. Count(col) |-> Valid(col)[j][1]])
SumSq(col) == SeqSum([j \in 1 .. Count(col) |-> Valid(col)[j][1] * Valid(col)[j][1]])
Spread(col) == Count(col) * SumSq(col) - Total(col) * Total(col)

\* `if std > 0`: false when std is 0 and when it is NaN (fewer than 2 values)
StdPositive(col) == Count(col) >= 2 /\ Spread(col) > 0

ZeroTerm == <<0, 1, 1>>

\* (x - mean) / std = (n x - Total) * sqrt((n - 1) / (n * Spread)); NaN stays
\* NaN; the whole column is the constant 0.0 when std is not positive
Normalize(col) ==
    LET n == Count(col)
        total == Total(col)
        nspread == n * Spread(col)
    IN  IF StdPositive(col)
        THEN Strict([j \in 1 .. Len(col) |->
                 IF col[j] = NaN THEN NaN ELSE <<n * col[j][1] - total, n - 1, nspread>>])
        ELSE Strict([j \in 1 .. Len(col) |-> ZeroTerm])

\* a missing score counted as -1 instead of 0
MutRowSumPenalised(terms) ==
    Strict([s \in 1 .. Len(terms) |-> IF terms[s] = NaN THEN <<-1, 1, 1>> ELSE terms[s]])

\* combined[signal_cols].sum(axis=1): NaN counts as 0.  The sum is kept as
\* the sequence of its terms, one per strategy.
RowSum(terms) ==
    Strict([s \in 1 .. Len(terms) |-> IF terms[s] = NaN THEN ZeroTerm ELSE terms[s]])

\* sign of num1 * sqrt(k1 / q1) + num2 * sqrt(k2 / q2) + ... (at most 2 terms)
ScoreSign(score) ==
    IF Len(score) = 0 THEN 0
    ELSE IF Len(score) = 1 THEN Sgn(score[1][1])
    ELSE LET p == score[1][1]
             r == score[2][1]
             w == p * p * score[1][2] * score[2][3] - r * r * score[2][2] * score[1][3]
         IN  IF p >= 0 /\ r >= 0 THEN (IF p = 0 /\ r = 0 THEN 0 ELSE 1)
             ELSE IF p <= 0 /\ r <= 0 THEN -1
             ELSE IF p > 0 THEN Sgn(w) ELSE -Sgn(w)

TermDiff(a, b) ==
    IF a[1] # 0 THEN <<a[1] - b[1], a[2], a[3]>> ELSE <<a[1] - b[1], b[2], b[3]>>

\* sign of x - y for two combined scores of one table
ScoreCmp(x, y) == ScoreSign(Strict([s \in 1 .. Len(x) |-> TermDiff(x[s], y[s])]))

\* rank(method='min'): rows with equal scores share the smallest rank
MutRankMin(index, score, j) ==
    1 + Cardinality({k \in 1 .. Len(index) :
                        /\ index[k].date = index[j].date
                        /\ ScoreCmp(score[k], score[j]) > 0})

\* rank(ascending=True, method='first'): the smallest score ranks first
MutRankAscending(index, score, j) ==
    1 + Cardinality({k \in 1 .. Len(index) :
                        /\ index[k].date = index[j].date
                        /\ \/ ScoreCmp(score[k], score[j]) < 0
                           \/ ScoreCmp(score[k], score[j]) = 0 /\ k < j})

\* groupby(level='date')['combined_score'].rank(ascending=False, method='first'):
\* within the row's date, 1 + the rows with a larger score + the rows with an
\* equal score that come earlier in the table
RankFirst(index, score, j) ==
    1 + Cardinality({k \in 1 .. Len(index) :
                        /\ index[k].date = index[j].date
                        /\ \/ ScoreCmp(score[k], score[j]) > 0
                           \/ ScoreCmp(score[k], score[j]) = 0 /\ k < j})

\* rank <= top_n_assets + 1: one asset too many is selected
MutPositionOffByOne(rank, top_n) == IF rank <= top_n + 1 THEN 1 ELSE 0

\* combined.loc[combined['rank'] <= top_n_assets, 'position'] = 1.0
Position(rank, top_n) == IF rank <= top_n THEN 1 ELSE 0

\* the position itself taken as the weight
MutWeightUnscaled(position, top_n) == IF top_n = 0 THEN NaN ELSE Rat(position, 1)

\* combined['position'] / top_n_assets: 0.0 / 0 is NaN, 0.0 / negative is -0.0
Weight(position, top_n) == IF top_n = 0 THEN NaN ELSE Rat(position, top_n)

\* DataFrame.corr(): Pearson correlation over the rows where both columns are
\* not NaN, kept as <<cov, var_x, var_y>> with r = cov / sqrt(var_x * var_y);
\* NaN with fewer than 2 such rows or a constant column
Corr(x, y) ==
    LET both == SelectSeq([j \in 1 .. Len(x) |-> <<x[j], y[j]>>],
                          LAMBDA p : p[1] # NaN /\ p[2] # NaN)
        n == Len(both)
        sx == SeqSum([j \in 1 .. n |-> both[j][1][1]])
        sy == SeqSum([j \in 1 .. n |-> both[j][2][1]])
        sxy == SeqSum([j \in 1 .. n |-> both[j][1][1] * both[j][2][1]])
        sxx == SeqSum([j \in 1 .. n |-> both[j][1][1] * both[j][1][1]])
        syy == SeqSum([j \in 1 .. n |-> both[j][2][1] * both[j][2][1]])
        vx == n * sxx - sx * sx
        vy == n * syy - sy * sy
    IN  IF n < 2 \/ vx = 0 \/ vy = 0 THEN NaN
        ELSE <<n * sxy - sx * sy, vx, vy>>

\* the table generate_ensemble_signals builds from the strategies' tables
Combine(names, out, top_n) ==
    LET index == Strict(ConcatIndex(Strict([s \in 1 .. Len(names) |-> out[names[s]]])))
        n == Len(index)
        raw == Strict([s \in 1 .. Len(names) |->
                   Strict([j \in 1 .. n |-> Lookup(out[names[s]], Key(index[j]))])])
        norm == Strict([s \in 1 .. Len(names) |-> Normalize(raw[s])])
        score == Strict([j \in 1 .. n |->
                     RowSum(Strict([s \in 1 .. Len(names) |-> norm[s][j]]))])
        rank == Strict([j \in 1 .. n |-> RankFirst(index, score, j)])
    IN  [j \in 1 .. n |->
            [date |-> index[j].date,
             ticker |-> index[j].ticker,
             signal |-> [s \in 1 .. Len(names) |-> raw[s][j]],
             normalized |-> [s \in 1 .. Len(names) |-> norm[s][j]],
             combined_score |-> score[j],
             rank |-> rank[j],
             position |-> Position(rank[j], top_n),
             weight |-> Weight(Position(rank[j], top_n), top_n)]]

\* _calculate_strategy_correlation
CorrelationMatrix(table, m) ==
    [s \in 1 .. m |-> [t \in 1 .. m |->
        Corr([j \in 1 .. Len(table) |-> table[j].signal[s]],
             [j \in 1 .. Len(table) |-> table[j].signal[t]])]]

\* no engine in the combiner's specifications
BTIdle ==
    /\ market = << >>
    /\ signals = << >>
    /\ initial_capital = RInt(0)
    /\ commission = RInt(0)
    /\ slippage = RInt(0)
    /\ equity_curve = << >>
    /\ daily_returns = << >>
    /\ positions_history = << >>
    /\ trades = << >>
    /\ cash = RInt(0)
    /\ positions = << >>
    /\ portfolio_value = RInt(0)
    /\ i = 0
    /\ equity_df = None
    /\ bt_pc = "new"
    /\ bt_runs = 0
    /\ metrics = None

PMStart ==
    /\ strategy_out \in [{strategies[s] : s \in 1 .. Len(strategies)} -> SignalTables(data)]
    /\ top_n_assets \in TopNValues
    /\ strategy_signals = [s \in {} |-> << >>]
    /\ combined_signals = None
    /\ correlation_matrix = None
    /\ pm_result = "new"
    /\ pm_calls = 0
    /\ pm_query = None
    /\ BTIdle
    /\ S3Idle
    /\ ColIdle

\* a manager of 0, 1 or 2 strategies and a market data table
PMInit ==
    /\ data \in DataTables(MaxRows)
    /\ strategies \in StrategyLists
    /\ PMStart

\* a manager of one strategy and a longer market data table
PMOneInit ==
    /\ data \in DataTables(MaxRowsOne)
    /\ strategies = <<"s1">>
    /\ PMStart

\* generate_ensemble_signals(data) with all_signals built from the strategies
\* named.  With none, pd.concat([]) raises ValueError ("No objects to
\* concatenate") and nothing is assigned.
GenerateFrom(names) ==
    /\ pm_calls < MaxCalls
    /\ pm_calls' = pm_calls + 1
    /\ pm_query' = None
    /\ UNCHANGED <<bt_vars, s3_vars, col_vars>>
    /\ IF names = << >>
       THEN /\ pm_result' = "ValueError"
            /\ UNCHANGED <<data, strategy_out, strategies, top_n_assets, strategy_signals,
                           combined_signals, correlation_matrix>>
       ELSE LET combined == Combine(names, strategy_out, top_n_assets)
            IN  /\ strategy_signals' = strategy_out
                /\ combined_signals' = Some(combined)
                /\ correlation_matrix' = Some(CorrelationMatrix(combined, Len(names)))
                /\ pm_result' = "returned"
                /\ UNCHANGED <<data, strategy_out, strategies, top_n_assets>>

\* all_signals kept on the manager: a later call joins the tables of the
\* earlier calls again
MutGenerateAccumulating ==
    GenerateFrom(IF pm_calls = 0 THEN strategies ELSE strategies \o strategies)

GenerateEnsembleSignals == GenerateFrom(strategies)

PMNext == GenerateEnsembleSignals

SpecPM == PMInit /\ [][PMNext]_vars

SpecPMOne == PMOneInit /\ [][PMNext]_vars

\* ---- the queries: get_portfolio_weights, get_top_assets, summary

\* the dates a query may name: those of the data and one that no table has
QueryDates == Dates \cup {3}
\* the top_n argument of get_top_assets: None, 0 or 1
TopNArguments == {None, Some(0), Some(1)}

\* every row of the date, whatever its weight
MutPortfolioWeightsAll(table, date) ==
    LET rows == SelectSeq(table, LAMBDA r : r.date = date)
    IN  Strict([j \in 1 .. Len(rows) |-> [ticker |-> rows[j].ticker, weight |-> rows[j].weight]])

\* weights = combined_signals.loc[date, 'weight']; weights[weights > 0]:
\* (ticker, weight) for the rows of the date with weight > 0, in the table's
\* order (NaN > 0 is False).  No row of the date: KeyError, the empty Series.
PortfolioWeights(table, date) ==
    LET rows == SelectSeq(table, LAMBDA r : r.date = date /\ r.weight # NaN
                                             /\ RLess(RInt(0), r.weight))
    IN  Strict([j \in 1 .. Len(rows) |-> [ticker |-> rows[j].ticker, weight |-> rows[j].weight]])

\* date_data.nlargest(n, 'combined_score'): the n rows with the largest
\* scores, largest first, equal scores in the table's order; none for n <= 0
NLargest(rows, n) ==
    LET Place(j) == 1 + Cardinality({k \in 1 .. Len(rows) :
                        \/ ScoreCmp(rows[k].combined_score, rows[j].combined_score) > 0
                        \/ /\ ScoreCmp(rows[k].combined_score, rows[j].combined_score) = 0
                           /\ k < j})
        kept == IF n < Len(rows) THEN n ELSE Len(rows)
    IN  Strict([p \in 1 .. kept |-> rows[CHOOSE j \in 1 .. Len(rows) : Place(j) = p]])

\* top[['combined_score', 'rank', 'weight']] with n = top_n or
\* config.top_n_assets; no row of the date: KeyError, the empty DataFrame
TopAssets(table, date, top_n, configured) ==
    LET n == IF top_n = None \/ The(top_n) = 0 THEN configured ELSE The(top_n)
        top == NLargest(SelectSeq(table, LAMBDA r : r.date = date), n)
    IN  Strict([p \in 1 .. Len(top) |->
            [ticker |-> top[p].ticker, combined_score |-> top[p].combined_score,
             rank |-> top[p].rank, weight |-> top[p].weight]])

\* a query leaves the manager as it is
Query(call, result) ==
    /\ pm_query' = Some([call |-> call, result |-> result])
    /\ UNCHANGED <<data, strategy_out, strategies, top_n_assets, strategy_signals,
                   combined_signals, correlation_matrix, pm_result, pm_calls>>
    /\ UNCHANGED <<bt_vars, s3_vars, col_vars>>

GetPortfolioWeights ==
    \E date \in QueryDates :
        Query([name |-> "get_portfolio_weights", date |-> date],
              IF combined_signals = None THEN [raised |-> "ValueError"]
              ELSE [returned |-> PortfolioWeights(The(combined_signals), date)])

GetTopAssets ==
    \E date \in QueryDates : \E top_n \in TopNArguments :
        Query([name |-> "get_top_assets", date |-> date, top_n |-> top_n],
              IF combined_signals = None THEN [raised |-> "ValueError"]
              ELSE [returned |-> TopAssets(The(combined_signals), date, top_n,
                                           top_n_assets)])

\* summary(): the error dict, or the counts (the score statistics left out)
Summary ==
    Query([name |-> "summary"],
          IF combined_signals = None
          THEN [returned |-> [error |-> "No signals generated yet"]]
          ELSE [returned |-> [num_strategies |-> Len(strategies),
                              strategy_names |-> strategies,
                              assets_selected_per_period |-> top_n_assets,
                              correlation_matrix |-> correlation_matrix]])

\* a manager of no or one strategy, and its queries
PMQueryInit ==
    /\ data \in DataTables(MaxRows)
    /\ strategies \in {<< >>, <<"s1">>}
    /\ PMStart

PMQueryNext == GenerateEnsembleSignals \/ GetPortfolioWeights \/ GetTopAssets \/ Summary

SpecPMQuery == PMQueryInit /\ [][PMQueryNext]_vars

\* ====================================================================
\* BacktestEngine.run
\* ====================================================================

TickerOrder == <<"A", "B">>
Prices == {RInt(1), RInt(2)}
InitialCapital == RInt(100)
\* the engine's cost settings: frictionless, or commission 1/8 and slippage 1/4
CostSettings == {<<RInt(0), RInt(0)>>, <<Rat(1, 8), Rat(1, 4)>>}
\* abs(shares_diff) > 0.01
MinTradeShares == Rat(1, 100)

\* the rows of one date of the market data: A always has a close, B may have
\* no row
DayPrices ==
    {f \in UNION {[S -> Prices] : S \in {{"A"}, {"A", "B"}}} :
        "B" \in DOMAIN f => f["B"] = RInt(1)}

\* the rows of one date of the weight table: none, A alone, B alone (A with an
\* explicit 0), or both at 1/2
NoRows == [t \in {} |-> RInt(0)]
DayWeights ==
    {NoRows,
     [t \in {"A"} |-> RInt(1)],
     [t \in {"A", "B"} |-> IF t = "B" THEN RInt(1) ELSE RInt(0)],
     [t \in {"A", "B"} |-> Rat(1, 2)]}

\* data.index.get_level_values('date').unique().sort_values()
RECURSIVE SortedDates(_)
SortedDates(S) ==
    IF S = {} THEN << >>
    ELSE LET least == CHOOSE d \in S : \A e \in S : d <= e
         IN  <<least>> \o SortedDates(S \ {least})

\* combined['weight'] after the left join on today's tickers and fillna(0.0)
WeightToday(w, t) == IF t \in DOMAIN w /\ w[t] # NaN THEN w[t] ELSE RInt(0)

Held(ps) == {ps[j].ticker : j \in 1 .. Len(ps)}
PositionOf(ps, t) == ps[CHOOSE j \in 1 .. Len(ps) : ps[j].ticker = t]

\* positions valued at their entry price instead of today's close
MutPositionsValueAtEntry(ps, close) ==
    RSeqSum(Strict([j \in 1 .. Len(ps) |->
        IF ps[j].ticker \in DOMAIN close
        THEN RMul(ps[j].shares, ps[j].entry_price) ELSE RInt(0)]))

\* a position without a row today carried at its entry price
MutPositionsValueCarried(ps, close) ==
    RSeqSum(Strict([j \in 1 .. Len(ps) |->
        IF ps[j].ticker \in DOMAIN close
        THEN RMul(ps[j].shares, close[ps[j].ticker])
        ELSE RMul(ps[j].shares, ps[j].entry_price)]))

\* the valuation loop: positions without a row today are skipped
PositionsValue(ps, close) ==
    RSeqSum(Strict([j \in 1 .. Len(ps) |->
        IF ps[j].ticker \in DOMAIN close
        THEN RMul(ps[j].shares, close[ps[j].ticker]) ELSE RInt(0)]))

\* target_shares = target_value / (price * (1 + slippage))
TargetShares(value, weight, price, slip) ==
    RDiv(RMul(value, weight), RMul(price, RAdd(RInt(1), slip)))

\* `if weight >= 0`: today's tickers with weight 0 are targets too
MutTargetPositionsZeroWeight(close, w, value, slip) ==
    LET tickers == SelectSeq(TickerOrder,
                       LAMBDA t : t \in DOMAIN close /\ RLeq(RInt(0), WeightToday(w, t)))
    IN  Strict([j \in 1 .. Len(tickers) |->
            [ticker |-> tickers[j],
             shares |-> TargetShares(value, WeightToday(w, tickers[j]), close[tickers[j]], slip),
             price |-> close[tickers[j]]]])

\* target_positions: today's tickers with weight > 0, in the table's order
TargetPositions(close, w, value, slip) ==
    LET tickers == SelectSeq(TickerOrder,
                       LAMBDA t : t \in DOMAIN close /\ RLess(RInt(0), WeightToday(w, t)))
    IN  Strict([j \in 1 .. Len(tickers) |->
            [ticker |-> tickers[j],
             shares |-> TargetShares(value, WeightToday(w, tickers[j]), close[tickers[j]], slip),
             price |-> close[tickers[j]]]])

\* the sale priced at the close, without the slippage haircut
MutExitPriceAtClose(close, slip) == close

\* exit_price = close * (1 - slippage)
ExitPrice(close, slip) == RMul(close, RSub(RInt(1), slip))

\* the commission credited instead of the net proceeds
MutCloseProceeds(shares, exit, comm) == RMul(RMul(shares, exit), comm)

\* cash += shares * exit_price * (1 - commission)
CloseProceeds(shares, exit, comm) == RMul(RMul(shares, exit), RSub(RInt(1), comm))

\* "Close positions not in target": every held ticker that is not a target
\* is deleted from positions; it is sold, and the sale logged, only when it
\* has a row today.  st = [cash, positions, trades].
RECURSIVE CloseLoop(_, _, _)
CloseLoop(todo, env, st) ==
    IF todo = << >> THEN st
    ELSE LET p == Head(todo)
             exit == ExitPrice(env.close[p.ticker], env.slippage)
             sold == [cash |-> RAdd(st.cash, CloseProceeds(p.shares, exit, env.commission)),
                      positions |-> st.positions,
                      trades |-> Append(st.trades,
                                    [date |-> env.date, ticker |-> p.ticker, action |-> "SELL",
                                     shares |-> p.shares, price |-> exit,
                                     pnl |-> RMul(p.shares, RSub(exit, p.entry_price))])]
             dropped == [cash |-> st.cash, positions |-> st.positions, trades |-> st.trades]
         IN  IF p.ticker \in env.targets
             THEN CloseLoop(Tail(todo), env,
                            [st EXCEPT !.positions = Append(st.positions, p)])
             ELSE IF p.ticker \in DOMAIN env.close
             THEN CloseLoop(Tail(todo), env, sold)
             ELSE CloseLoop(Tail(todo), env, dropped)

\* the entry price of a held ticker kept when its share count is adjusted
MutSetPositionKeepsEntry(ps, t, shares, price) ==
    IF t \in Held(ps)
    THEN Strict([j \in 1 .. Len(ps) |->
             IF ps[j].ticker = t
             THEN [ticker |-> t, shares |-> shares, entry_price |-> ps[j].entry_price]
             ELSE ps[j]])
    ELSE Append(ps, [ticker |-> t, shares |-> shares, entry_price |-> price])

\* positions[ticker] = (target_shares, entry_price): in place for a held
\* ticker, appended for a new one
SetPosition(ps, t, shares, price) ==
    IF t \in Held(ps)
    THEN Strict([j \in 1 .. Len(ps) |->
             IF ps[j].ticker = t
             THEN [ticker |-> t, shares |-> shares, entry_price |-> price] ELSE ps[j]])
    ELSE Append(ps, [ticker |-> t, shares |-> shares, entry_price |-> price])

\* cash -= trade_value + commission_cost
TradeCost(diff, price, slip, comm) ==
    LET trade_value == RMul(RMul(diff, price), RAdd(RInt(1), slip))
    IN  RAdd(trade_value, RMul(RAbs(trade_value), comm))

\* "Open/adjust positions in target"
RECURSIVE AdjustLoop(_, _, _)
AdjustLoop(todo, env, st) ==
    IF todo = << >> THEN st
    ELSE LET tp == Head(todo)
             current == IF tp.ticker \in Held(st.positions)
                        THEN PositionOf(st.positions, tp.ticker).shares ELSE RInt(0)
             diff == RSub(tp.shares, current)
             traded == [cash |-> RSub(st.cash, TradeCost(diff, tp.price, env.slippage,
                                                         env.commission)),
                        positions |-> SetPosition(st.positions, tp.ticker, tp.shares, tp.price),
                        trades |-> Append(st.trades,
                                      [date |-> env.date, ticker |-> tp.ticker,
                                       action |-> IF RLess(RInt(0), diff) THEN "BUY" ELSE "SELL",
                                       shares |-> RAbs(diff), price |-> tp.price,
                                       pnl |-> RInt(0)])]
         IN  IF RLess(MinTradeShares, RAbs(diff))
             THEN AdjustLoop(Tail(todo), env, traded)
             ELSE AdjustLoop(Tail(todo), env, st)

\* the targets opened and adjusted before the other positions are closed
MutRebalanceAdjustFirst(date, close, w, value, cash0, ps, log, slip, comm) ==
    LET targets == TargetPositions(close, w, value, slip)
        env == [date |-> date, close |-> close, slippage |-> slip, commission |-> comm,
                targets |-> {targets[j].ticker : j \in 1 .. Len(targets)}]
        adjusted == AdjustLoop(targets, env, [cash |-> cash0, positions |-> ps, trades |-> log])
    IN  CloseLoop(adjusted.positions, env,
                  [cash |-> adjusted.cash, positions |-> << >>, trades |-> adjusted.trades])

\* the rebalance of one date: [cash, positions, trades] after both loops
Rebalance(date, close, w, value, cash0, ps, log, slip, comm) ==
    LET targets == TargetPositions(close, w, value, slip)
        env == [date |-> date, close |-> close, slippage |-> slip, commission |-> comm,
                targets |-> {targets[j].ticker : j \in 1 .. Len(targets)}]
        closed == CloseLoop(ps, env, [cash |-> cash0, positions |-> << >>, trades |-> log])
    IN  AdjustLoop(targets, env, closed)

\* daily_return = (portfolio_value - prev_value) / prev_value.  The values are
\* numpy floats once a trade has happened, so a prev_value of 0 gives NaN
\* (0 / 0) or an infinity, written <<1, 0>> or <<-1, 0>>, and no exception.
DailyReturn(value, prev) ==
    IF prev[1] # 0 THEN RDiv(RSub(value, prev), prev)
    ELSE IF value[1] = 0 THEN NaN
    ELSE <<Sgn(value[1]), 0>>

dates == SortedDates(DOMAIN market)

\* a close that is not a number (a string cell of the close column)
NonNumeric == <<0, 0>>

\* shares * current_price raises TypeError for a held ticker whose close
\* today is not a number
ValuationRaises(ps, close) ==
    \E j \in 1 .. Len(ps) :
        ps[j].ticker \in DOMAIN close /\ close[ps[j].ticker] = NonNumeric

\* target_value / (price * (1 + self.slippage)) raises TypeError for a ticker
\* with weight > 0 whose close today is not a number
TargetRaises(close, w) ==
    \E t \in DOMAIN close : RLess(RInt(0), WeightToday(w, t)) /\ close[t] = NonNumeric

\* the KeyError of a date without weights not handled as a skip
MutSignalsHaveDate(date) == TRUE

\* signals.loc[date] raises KeyError when the weight table has no row of date
SignalsHaveDate(date) == DOMAIN signals[date] # {}

BTInit ==
    /\ market \in UNION {[1 .. n -> DayPrices] : n \in 1 .. MaxDates}
    /\ signals \in [DOMAIN market -> DayWeights]
    /\ initial_capital = InitialCapital
    /\ \E c \in CostSettings : commission = c[1] /\ slippage = c[2]
    /\ equity_curve = << >>
    /\ daily_returns = << >>
    /\ positions_history = << >>
    /\ trades = << >>
    /\ cash = RInt(0)
    /\ positions = << >>
    /\ portfolio_value = RInt(0)
    /\ i = 0
    /\ equity_df = None
    /\ bt_pc = "new"
    /\ bt_runs = 0
    /\ metrics = None
    /\ S3Idle
    /\ ColIdle
    /\ data = << >>
    /\ strategies = << >>
    /\ strategy_out = [s \in {} |-> << >>]
    /\ top_n_assets = 1
    /\ strategy_signals = [s \in {} |-> << >>]
    /\ combined_signals = None
    /\ correlation_matrix = None
    /\ pm_result = "new"
    /\ pm_calls = 0
    /\ pm_query = None

\* run(data, signals) up to the loop: the locals are initialised; the
\* engine's lists are left as they are
RunStart ==
    /\ bt_pc # "running"
    /\ bt_runs < MaxRuns
    /\ bt_runs' = bt_runs + 1
    /\ bt_pc' = "running"
    /\ cash' = initial_capital
    /\ positions' = << >>
    /\ portfolio_value' = initial_capital
    /\ i' = 0
    /\ metrics' = None
    /\ UNCHANGED <<market, signals, initial_capital, commission, slippage, equity_curve,
                   daily_returns, positions_history, trades, equity_df>>
    /\ UNCHANGED <<pm_vars, s3_vars, col_vars>>

\* one iteration of `for i, date in enumerate(dates)`
RunDate ==
    /\ bt_pc = "running"
    /\ i < Len(dates)
    /\ i' = i + 1
    /\ LET date == dates[i + 1]
           close == market[date]
           w == signals[date]
       IN  IF ~SignalsHaveDate(date)
           THEN \* except KeyError: continue
                UNCHANGED <<equity_curve, daily_returns, positions_history, trades, cash,
                            positions, portfolio_value, bt_pc>>
           ELSE IF ValuationRaises(positions, close)
           THEN \* TypeError at line 93, nothing recorded for the date
                /\ bt_pc' = "TypeError"
                /\ UNCHANGED <<equity_curve, daily_returns, positions_history, trades, cash,
                               positions, portfolio_value>>
           ELSE IF TargetRaises(close, w)
           THEN \* TypeError at line 104, after the valuation of line 95
                /\ bt_pc' = "TypeError"
                /\ portfolio_value' = RAdd(cash, PositionsValue(positions, close))
                /\ UNCHANGED <<equity_curve, daily_returns, positions_history, trades, cash,
                               positions>>
           ELSE LET positions_value == PositionsValue(positions, close)
                    value == RAdd(cash, positions_value)
                    after == Rebalance(date, close, w, value, cash, positions, trades,
                                       slippage, commission)
                    curve == Append(equity_curve,
                                 [date |-> date, portfolio_value |-> value,
                                  cash |-> after.cash, positions_value |-> positions_value,
                                  num_positions |-> Len(after.positions)])
                IN  /\ portfolio_value' = value
                    /\ cash' = after.cash
                    /\ positions' = after.positions
                    /\ trades' = after.trades
                    /\ equity_curve' = curve
                    /\ IF i > 0 /\ i > Len(curve)
                       THEN \* self.equity_curve[i-1] raises IndexError
                            /\ bt_pc' = "IndexError"
                            /\ UNCHANGED <<daily_returns, positions_history>>
                       ELSE /\ bt_pc' = "running"
                            /\ daily_returns' =
                                  IF i > 0
                                  THEN Append(daily_returns,
                                           DailyReturn(value, curve[i].portfolio_value))
                                  ELSE daily_returns
                            /\ positions_history' =
                                  Append(positions_history,
                                      [date |-> date, positions |-> after.positions])
    /\ UNCHANGED <<market, signals, initial_capital, commission, slippage, equity_df, bt_runs,
                   metrics>>
    /\ UNCHANGED <<pm_vars, s3_vars, col_vars>>

\* after the loop: pd.DataFrame(self.equity_curve).set_index('date') raises
\* KeyError when the list is empty (no 'date' column); otherwise run returns
\* the frame of the whole list
RunReturn ==
    /\ bt_pc = "running"
    /\ i = Len(dates)
    /\ IF equity_curve = << >>
       THEN bt_pc' = "KeyError" /\ UNCHANGED equity_df
       ELSE bt_pc' = "returned" /\ equity_df' = Some(equity_curve)
    /\ UNCHANGED <<market, signals, initial_capital, commission, slippage, equity_curve,
                   daily_returns, positions_history, trades, cash, positions,
                   portfolio_value, i, bt_runs, metrics>>
    /\ UNCHANGED <<pm_vars, s3_vars, col_vars>>

BTNext == RunStart \/ RunDate \/ RunReturn

\* ---- get_performance_metrics
\* float arithmetic on the values a return can take: a rational, NaN, or an
\* infinity <<1, 0>>, <<-1, 0>>
IsInf(x) == Len(x) = 2 /\ x[2] = 0
XNeg(x) == IF x = NaN THEN NaN ELSE <<-x[1], x[2]>>
XAdd(x, y) ==
    IF x = NaN \/ y = NaN THEN NaN
    ELSE IF IsInf(x) /\ IsInf(y) THEN (IF x = y THEN x ELSE NaN)
    ELSE IF IsInf(x) THEN x
    ELSE IF IsInf(y) THEN y
    ELSE RAdd(x, y)
XMul(x, y) ==
    IF x = NaN \/ y = NaN THEN NaN
    ELSE IF IsInf(x) \/ IsInf(y)
    THEN (IF x[1] = 0 \/ y[1] = 0 THEN NaN ELSE <<Sgn(x[1]) * Sgn(y[1]), 0>>)
    ELSE RMul(x, y)
XDiv(x, y) ==
    IF x = NaN \/ y = NaN THEN NaN
    ELSE IF IsInf(x) THEN (IF IsInf(y) THEN NaN
                           ELSE <<Sgn(x[1]) * (IF y[1] < 0 THEN -1 ELSE 1), 0>>)
    ELSE IF IsInf(y) THEN RInt(0)
    ELSE IF y[1] = 0 THEN (IF x[1] = 0 THEN NaN ELSE <<Sgn(x[1]), 0>>)
    ELSE RDiv(x, y)
\* x < y for two values that are not NaN
XLess(x, y) ==
    IF IsInf(x) \/ IsInf(y)
    THEN x # y /\ (x = <<-1, 0>> \/ y = <<1, 0>>)
    ELSE RLess(x, y)

\* (1 + returns).cumprod(): a NaN return stays NaN in the result and is left
\* out of the running product
RECURSIVE CumProd(_, _, _)
CumProd(returns, k, acc) ==
    IF k > Len(returns) THEN << >>
    ELSE IF returns[k] = NaN THEN <<NaN>> \o CumProd(returns, k + 1, acc)
    ELSE LET next == XMul(acc, XAdd(RInt(1), returns[k]))
         IN  <<next>> \o CumProd(returns, k + 1, next)

\* cumulative.expanding().max(): the largest value so far that is not NaN
RECURSIVE RunningMax(_, _, _)
RunningMax(cumulative, k, best) ==
    IF k > Len(cumulative) THEN << >>
    ELSE LET c == cumulative[k]
             m == IF c = NaN THEN best
                  ELSE IF best = NaN \/ XLess(best, c) THEN c ELSE best
         IN  <<m>> \o RunningMax(cumulative, k + 1, m)

\* min() of a series, NaN entries skipped; NaN when nothing is left
RECURSIVE SeriesMin(_)
SeriesMin(s) ==
    IF s = << >> THEN NaN
    ELSE LET rest == SeriesMin(Tail(s))
         IN  IF Head(s) = NaN THEN rest
             ELSE IF rest = NaN \/ XLess(Head(s), rest) THEN Head(s) ELSE rest

\* lines 199-202: the drawdown of the compounded daily returns
MaxDrawdown(returns) ==
    LET cumulative == Strict(CumProd(returns, 1, RInt(1)))
        running_max == Strict(RunningMax(cumulative, 1, NaN))
        drawdown == Strict([k \in 1 .. Len(returns) |->
                        XDiv(XAdd(cumulative[k], XNeg(running_max[k])), running_max[k])])
    IN  SeriesMin(drawdown)

\* len(winning_trades) / len(self.trades) if len(self.trades) > 0 else 0
WinRate(log) ==
    IF log = << >> THEN RInt(0)
    ELSE Rat(Len(SelectSeq(log, LAMBDA t : RLess(RInt(0), t.pnl))), Len(log))

\* get_performance_metrics(): the error dict without daily returns, else the
\* metrics; the record holds the numbers before they are formatted as text,
\* and leaves out the annualised figures
GetPerformanceMetrics ==
    /\ bt_pc # "running"
    /\ metrics = None
    /\ metrics' =
          Some(IF daily_returns = << >>
               THEN [error |-> "No backtest results available"]
               ELSE [total_return |->
                         XAdd(XDiv(equity_curve[Len(equity_curve)].portfolio_value,
                                   initial_capital), RInt(-1)),
                     max_drawdown |-> MaxDrawdown(daily_returns),
                     win_rate |-> WinRate(trades),
                     total_trades |-> Len(trades),
                     final_value |-> equity_curve[Len(equity_curve)].portfolio_value])
    /\ UNCHANGED <<market, signals, initial_capital, commission, slippage, equity_curve,
                   daily_returns, positions_history, trades, cash, positions,
                   portfolio_value, i, equity_df, bt_pc, bt_runs>>
    /\ UNCHANGED <<pm_vars, s3_vars, col_vars>>

BTMetricsNext == BTNext \/ GetPerformanceMetrics

SpecBTMetrics == BTInit /\ [][BTMetricsNext]_vars

SpecBT == BTInit /\ [][BTNext]_vars

\* BacktestEngine.__init__: the lists are empty; run has not been called
EngineNew ==
    /\ equity_curve = << >>
    /\ daily_returns = << >>
    /\ positions_history = << >>
    /\ trades = << >>
    /\ cash = RInt(0)
    /\ positions = << >>
    /\ portfolio_value = RInt(0)
    /\ i = 0
    /\ equity_df = None
    /\ bt_pc = "new"
    /\ bt_runs = 0
    /\ metrics = None
    /\ S3Idle
    /\ ColIdle
    /\ data = << >>
    /\ strategies = << >>
    /\ strategy_out = [s \in {} |-> << >>]
    /\ top_n_assets = 1
    /\ strategy_signals = [s \in {} |-> << >>]
    /\ combined_signals = None
    /\ correlation_matrix = None
    /\ pm_result = "new"
    /\ pm_calls = 0
    /\ pm_query = None

\* ---- market data in which a close may be a string
DayPricesBad == {[t \in {"A"} |-> c] : c \in {RInt(1), NonNumeric}}

BTBadInit ==
    /\ market \in UNION {[1 .. n -> DayPricesBad] : n \in 1 .. MaxDates}
    /\ signals \in [DOMAIN market -> DayWeights]
    /\ initial_capital = InitialCapital
    /\ \E c \in CostSettings : commission = c[1] /\ slippage = c[2]
    /\ EngineNew

SpecBTBad == BTBadInit /\ [][BTNext]_vars

\* ---- an engine without commission, with or without slippage
SlippageSettings == {RInt(0), Rat(1, 4)}

BTSlipInit ==
    /\ market \in UNION {[1 .. n -> DayPrices] : n \in 1 .. MaxDates}
    /\ signals \in [DOMAIN market -> DayWeights]
    /\ initial_capital = InitialCapital
    /\ commission = RInt(0)
    /\ slippage \in SlippageSettings
    /\ EngineNew

SpecBTSlip == BTSlipInit /\ [][BTNext]_vars

\* no manager in the specifications of the loader and of the single column
PMIdle ==
    /\ data = << >>
    /\ strategies = << >>
    /\ strategy_out = [s \in {} |-> << >>]
    /\ top_n_assets = 1
    /\ strategy_signals = [s \in {} |-> << >>]
    /\ combined_signals = None
    /\ correlation_matrix = None
    /\ pm_result = "new"
    /\ pm_calls = 0
    /\ pm_query = None

\* ---- small accounts: capitals around one hundredth of a share of A at a
\* close of 1, frictionless
SmallCapitals == {Rat(1, 200), Rat(1, 100), Rat(1, 50)}

BTSmallInit ==
    /\ market \in [1 .. MaxDates -> DayPrices]
    /\ signals \in [1 .. MaxDates -> DayWeights]
    /\ initial_capital \in SmallCapitals
    /\ commission = RInt(0)
    /\ slippage = RInt(0)
    /\ EngineNew

SpecBTSmall == BTSmallInit /\ [][BTNext]_vars

\* ---- runs of one date more than MaxDates, with costs: B has a close on
\* some dates only, and every date has rows in the weight table
GapPrices == {[t \in {"A", "B"} |-> RInt(1)], [t \in {"A"} |-> RInt(1)]}

BTLongInit ==
    /\ market \in [1 .. MaxDates + 1 -> GapPrices]
    /\ signals \in [1 .. MaxDates + 1 -> DayWeights \ {NoRows}]
    /\ initial_capital = InitialCapital
    /\ \E c \in CostSettings : commission = c[1] /\ slippage = c[2]
    /\ EngineNew

SpecBTLong == BTLongInit /\ [][BTNext]_vars

\* ---- the trend scenario: combiner and simulator end to end
\* A closes at 100, 110, 121 and B at 100, 90, 81; one strategy scores one
\* asset +1 and the other -1 on every date; top_n_assets = 1; capital 10000;
\* no commission, no slippage.
ScenarioCloses == [A |-> <<100, 110, 121>>, B |-> <<100, 90, 81>>]
ScenarioDays == 1 .. Len(ScenarioCloses["A"])
ScenarioCapital == RInt(10000)
ScenarioMarket ==
    [d \in ScenarioDays |-> [t \in Assets |-> RInt(ScenarioCloses[t][d])]]
ScenarioData ==
    Strict([j \in 1 .. 2 * Len(ScenarioCloses["A"]) |->
        [date |-> (j + 1) \div 2, ticker |-> IF j % 2 = 1 THEN "A" ELSE "B"]])
ScenarioScores(favoured) ==
    [s \in {"s1"} |->
        Strict([j \in 1 .. Len(ScenarioData) |->
            [date |-> ScenarioData[j].date, ticker |-> ScenarioData[j].ticker,
             signal |-> IF ScenarioData[j].ticker = favoured THEN <<1>> ELSE <<-1>>]])]

\* the weight column of the combiner's table as run reads it: date -> ticker -> weight
WeightTable(table) ==
    [d \in {table[j].date : j \in 1 .. Len(table)} |->
        [t \in {table[j].ticker : j \in {k \in 1 .. Len(table) : table[k].date = d}} |->
            table[CHOOSE j \in 1 .. Len(table) :
                      table[j].date = d /\ table[j].ticker = t].weight]]

\* the scenario's closes on the scenario's days in any order (the scenario's
\* own market among them), the weights as the combiner computes them
ScenarioInit ==
    /\ market \in [ScenarioDays ->
                     {[t \in Assets |-> RInt(ScenarioCloses[t][d[t]])] :
                          d \in [Assets -> ScenarioDays]}]
    /\ \E favoured \in Assets :
          signals = WeightTable(Combine(<<"s1">>, ScenarioScores(favoured), 1))
    /\ initial_capital = ScenarioCapital
    /\ commission = RInt(0)
    /\ slippage = RInt(0)
    /\ EngineNew

SpecScenario == ScenarioInit /\ [][BTNext]_vars

\* ---- combiner and simulator end to end: a manager of one strategy whose
\* generate_ensemble_signals has returned, and a new engine that is given the
\* manager's table as signals
EnsembleData ==
    Strict([j \in 1 .. 2 * MaxDates |->
        [date |-> (j + 1) \div 2, ticker |-> IF j % 2 = 1 THEN "A" ELSE "B"]])

\* the scores of one date: A above B, B above A, or both the same
ScorePatterns == {[A |-> <<1>>, B |-> <<-1>>], [A |-> <<-1>>, B |-> <<1>>],
                  [A |-> <<1>>, B |-> <<1>>]}

EnsembleScores ==
    {[s \in {"s1"} |->
         Strict([j \in 1 .. Len(EnsembleData) |->
             [date |-> EnsembleData[j].date, ticker |-> EnsembleData[j].ticker,
              signal |-> f[EnsembleData[j].date][EnsembleData[j].ticker]]])] :
     f \in [1 .. MaxDates -> ScorePatterns]}

\* the rows of one date of the market data: A alone at 1, or both
EnsemblePrices == {f \in DayPrices : f["A"] = RInt(1) \/ "B" \in DOMAIN f}

EnsembleInit ==
    /\ data = EnsembleData
    /\ strategies = <<"s1">>
    /\ strategy_out \in EnsembleScores
    /\ top_n_assets \in 1 .. MaxTopN
    /\ strategy_signals = strategy_out
    /\ combined_signals = Some(Combine(strategies, strategy_out, top_n_assets))
    /\ correlation_matrix = Some(CorrelationMatrix(The(combined_signals), 1))
    /\ pm_result = "returned"
    /\ pm_calls = 1
    /\ pm_query = None
    /\ market \in [1 .. MaxDates -> EnsemblePrices]
    /\ signals = WeightTable(The(combined_signals))
    /\ initial_capital = InitialCapital
    /\ \E c \in CostSettings : commission = c[1] /\ slippage = c[2]
    /\ equity_curve = << >>
    /\ daily_returns = << >>
    /\ positions_history = << >>
    /\ trades = << >>
    /\ cash = RInt(0)
    /\ positions = << >>
    /\ portfolio_value = RInt(0)
    /\ i = 0
    /\ equity_df = None
    /\ bt_pc = "new"
    /\ bt_runs = 0
    /\ metrics = None
    /\ S3Idle
    /\ ColIdle

SpecEnsemble == EnsembleInit /\ [][BTNext]_vars

\* ====================================================================
\* Properties of the combiner
\* ====================================================================

Returned == pm_result = "returned"
Table == The(combined_signals)
TableDates == {Table[j].date : j \in 1 .. Len(Table)}
RowsOf(d) == SelectSeq(Table, LAMBDA r : r.date = d)
WeightSum(d) == RSeqSum([j \in 1 .. Len(RowsOf(d)) |-> RowsOf(d)[j].weight])

\* C1: with top_n_assets >= 1 the weights of every date of the returned table
\* sum to at most 1, and to exactly 1 when the date has at least top_n_assets
\* rows.
C1_WeightSum ==
    (Returned /\ top_n_assets >= 1) =>
        \A d \in TableDates :
            /\ RLeq(WeightSum(d), RInt(1))
            /\ Len(RowsOf(d)) >= top_n_assets => WeightSum(d) = RInt(1)

\* a returned table with two rows on one date, both selected with weight 1/2
C1_Witness ==
    /\ Returned
    /\ top_n_assets = 2
    /\ \E d \in TableDates :
          /\ Len(RowsOf(d)) = 2
          /\ \A j \in 1 .. 2 : RowsOf(d)[j].weight = Rat(1, 2)

RanksExact(t, d) ==
    LET rows == SelectSeq(t, LAMBDA r : r.date = d)
    IN  {rows[j].rank : j \in 1 .. Len(rows)} = 1 .. Len(rows)

\* the rank of each row of date d is its place among the rows of d ordered by
\* combined_score descending, equal scores in table order
RanksFromOwnDate(t, d) ==
    LET rows == SelectSeq(t, LAMBDA r : r.date = d)
    IN  \A j \in 1 .. Len(rows) :
            rows[j].rank =
                1 + Cardinality({k \in 1 .. Len(rows) :
                        \/ ScoreCmp(rows[k].combined_score, rows[j].combined_score) > 0
                        \/ /\ ScoreCmp(rows[k].combined_score, rows[j].combined_score) = 0
                           /\ k < j})

\* the strategies' tables cut down to the rows of date d
OnlyDate(out, d) == [s \in DOMAIN out |-> SelectSeq(out[s], LAMBDA r : r.date = d)]

\* the ranks of date d are those the combiner assigns when the rows of every
\* other date are removed from its input
RanksIgnoreOtherDates(d) ==
    LET alone == Combine(strategies, OnlyDate(strategy_out, d), top_n_assets)
        rows == RowsOf(d)
    IN  /\ Len(alone) = Len(rows)
        /\ \A j \in 1 .. Len(rows) : alone[j].rank = rows[j].rank

\* C3 (as stated): on every date the ranks are exactly 1 .. k, and they do not
\* depend on the rows of any other date.
C3_Original ==
    Returned => \A d \in TableDates : RanksExact(Table, d) /\ RanksIgnoreOtherDates(d)

\* C3 (amended): on every date the ranks are exactly 1 .. k, without gaps or
\* duplicates also among equal scores, and they are determined by the
\* combined_scores and the table order of that date's rows alone.
C3_RanksExact ==
    Returned => \A d \in TableDates : RanksExact(Table, d) /\ RanksFromOwnDate(Table, d)

\* two rows of one date with equal combined_score, ranked 1 and 2
C3_Witness ==
    /\ Returned
    /\ \E d \in TableDates :
          /\ Len(RowsOf(d)) = 2
          /\ ScoreCmp(RowsOf(d)[1].combined_score, RowsOf(d)[2].combined_score) = 0
          /\ RowsOf(d)[1].rank = 1
          /\ RowsOf(d)[2].rank = 2

\* C4: within one date a larger combined_score has the smaller rank, and of
\* two rows with equal combined_score the earlier in the table has the smaller
\* rank.
C4_RankOrder ==
    Returned =>
        \A j, k \in 1 .. Len(Table) :
            (Table[j].date = Table[k].date /\ j # k) =>
                LET c == ScoreCmp(Table[j].combined_score, Table[k].combined_score)
                IN  /\ c > 0 => Table[j].rank < Table[k].rank
                    /\ (c = 0 /\ j < k) => Table[j].rank < Table[k].rank

\* the later row of a date has the larger score and rank 1
C4_Witness ==
    /\ Returned
    /\ \E j, k \in 1 .. Len(Table) :
          /\ j < k
          /\ Table[j].date = Table[k].date
          /\ ScoreCmp(Table[k].combined_score, Table[j].combined_score) > 0
          /\ Table[k].rank = 1
          /\ Table[j].rank = 2

\* C5: a second call of generate_ensemble_signals on the same manager, data
\* and strategies leaves combined_score, rank and weight of every row (and the
\* rest of the manager's state) as the first call left them.
C5_Idempotent ==
    [][(pm_calls >= 1 /\ Returned) =>
          /\ combined_signals' = combined_signals
          /\ strategy_signals' = strategy_signals
          /\ correlation_matrix' = correlation_matrix
          /\ pm_result' = pm_result]_vars

\* a manager whose second call has returned a non-empty table
C5_Witness == pm_calls = 2 /\ Returned /\ Len(Table) >= 2

\* C6 (as stated): with top_n_assets < 1 or no strategy, the call fails and no
\* table is produced.
C6_RejectsBadConfig ==
    (pm_calls >= 1 /\ (top_n_assets < 1 \/ strategies = << >>)) =>
        pm_result # "returned" /\ combined_signals = None

\* the strategies' tables do not all have the same (date, ticker) rows
Misaligned ==
    \E s, t \in DOMAIN strategy_out : KeysOf(strategy_out[s]) # KeysOf(strategy_out[t])

\* C7 (as stated): when two strategies return tables with different indexes,
\* the call fails instead of returning a combined table.
C7_RejectsMisaligned ==
    (pm_calls >= 1 /\ Misaligned) => pm_result # "returned" /\ combined_signals = None

\* ====================================================================
\* Properties of the simulator
\* ====================================================================

\* the dates among the first n of the run that have rows in the weight table
Simulated(n) == SelectSeq(SubSeq(dates, 1, n), LAMBDA d : DOMAIN signals[d] # {})

LastSnapshots(k) ==
    SubSeq(equity_curve, Len(equity_curve) - k + 1, Len(equity_curve))

SnapshotsFollowDates ==
    bt_runs >= 1 =>
        LET done == Simulated(i)
        IN  /\ \A j, k \in 1 .. Len(dates) : j < k => dates[j] < dates[k]
            /\ Len(equity_curve) >= Len(done)
            /\ \A j \in 1 .. Len(done) : LastSnapshots(Len(done))[j].date = done[j]

\* a step leaves equity_curve as it is or appends one snapshot to it, and it
\* appends only in the iteration of a date that has rows in the weight table
SnapshotsAppendOnly ==
    \/ equity_curve' = equity_curve
    \/ /\ Len(equity_curve') = Len(equity_curve) + 1
       /\ SubSeq(equity_curve', 1, Len(equity_curve)) = equity_curve
       /\ bt_pc = "running" /\ i' = i + 1
       /\ DOMAIN signals[dates[i']] # {}
       /\ equity_curve'[Len(equity_curve')].date = dates[i']

C9_GapKeepsPosition ==
    [][(bt_pc = "running" /\ i' = i + 1) =>
          \A j \in 1 .. Len(positions) :
              positions[j].ticker \notin DOMAIN market[dates[i']] =>
                  /\ \E k \in 1 .. Len(positions') : positions'[k] = positions[j]
                  /\ \A k \in Len(trades) + 1 .. Len(trades') :
                        trades'[k].ticker # positions[j].ticker]_vars

\* the date whose iteration ended last was simulated (not skipped)
LastDateSimulated == bt_runs >= 1 /\ i >= 1 /\ DOMAIN signals[dates[i]] # {}

\* cash + sum of shares * close over the positions map, at the closes of the
\* date whose iteration ended last
CashPlusPositions ==
    RAdd(cash, RSeqSum(Strict([j \in 1 .. Len(positions) |->
                 RMul(positions[j].shares, market[dates[i]][positions[j].ticker])])))

\* C10: with commission 0 and slippage 0, after the rebalance of a date the
\* cash plus the positions at that date's closes equals the portfolio_value
\* recorded for the date.
C10_Conservation ==
    (LastDateSimulated /\ commission = RInt(0) /\ slippage = RInt(0)) =>
        /\ Held(positions) \subseteq DOMAIN market[dates[i]]
        /\ CashPlusPositions = equity_curve[Len(equity_curve)].portfolio_value
        /\ portfolio_value = equity_curve[Len(equity_curve)].portfolio_value

\* a frictionless second date on which one position was closed and another
\* opened, at a value other than the initial capital
C10_Witness ==
    /\ LastDateSimulated
    /\ commission = RInt(0) /\ slippage = RInt(0)
    /\ i = 2
    /\ Len(trades) = 3
    /\ trades[2].action = "SELL" /\ trades[2].date = 2
    /\ trades[3].action = "BUY" /\ trades[3].date = 2
    /\ portfolio_value # initial_capital
    /\ Len(positions) = 1
\* asset t has a close and weight 1 on every date, every other asset weight 0
HeldThroughout(t) ==
    \A d \in DOMAIN market :
        /\ t \in DOMAIN market[d]
        /\ SignalsHaveDate(d)
        /\ \A u \in DOMAIN market[d] :
              WeightToday(signals[d], u) = IF u = t THEN RInt(1) ELSE RInt(0)

RecordedValues == [j \in 1 .. Len(equity_curve) |-> equity_curve[j].portfolio_value]

\* C11: without commission and slippage, and one asset at weight 1 on every
\* date, every recorded portfolio_value is initial_capital * close(date) /
\* close(first date) and the only trade of the run is the BUY of the first
\* date; in the scenario of closes A = 100, 110, 121 the values are 10000,
\* 11000, 12100 and B is never traded.
C11_BuyAndHold ==
    \A t \in Assets :
        (bt_runs = 1 /\ commission = RInt(0) /\ slippage = RInt(0) /\ HeldThroughout(t)) =>
            /\ Len(equity_curve) = i
            /\ \A j \in 1 .. Len(equity_curve) :
                  /\ equity_curve[j].date = dates[j]
                  /\ equity_curve[j].portfolio_value =
                        RDiv(RMul(initial_capital, market[dates[j]][t]), market[dates[1]][t])
            /\ i >= 1 =>
                  trades = <<[date |-> dates[1], ticker |-> t, action |-> "BUY",
                              shares |-> RDiv(initial_capital, market[dates[1]][t]),
                              price |-> market[dates[1]][t], pnl |-> RInt(0)]>>
            /\ (market = ScenarioMarket /\ t = "A" /\ bt_pc = "returned") =>
                  /\ RecordedValues = <<RInt(10000), RInt(11000), RInt(12100)>>
                  /\ \A k \in 1 .. Len(trades) : trades[k].ticker # "B"

\* the scenario's run has returned with the values 10000, 11000, 12100
C11_Witness ==
    /\ bt_pc = "returned"
    /\ bt_runs = 1
    /\ market = ScenarioMarket
    /\ HeldThroughout("A")
    /\ RecordedValues = <<RInt(10000), RInt(11000), RInt(12100)>>
    /\ Len(trades) = 1
\* the weight table has the same rows and weights on every date
ConstantWeights == \A d, f \in DOMAIN signals : signals[d] = signals[f]

\* at the valuation of date d the holdings are the target weights: every
\* held asset has a close, and the value held in each asset is its weight
\* times the portfolio value
AtTarget(d) ==
    LET close == market[d]
        value == RAdd(cash, PositionsValue(positions, close))
        held_value(t) == IF t \in Held(positions)
                         THEN RMul(PositionOf(positions, t).shares, close[t]) ELSE RInt(0)
    IN  /\ Held(positions) \subseteq DOMAIN close
        /\ \A t \in Assets : held_value(t) = RMul(WeightToday(signals[d], t), value)

\* C12 (as stated): with the same target weights on every date, a date after
\* the first rebalance on which the holdings already equal the weights
\* appends no trade.
C12_NoTradeAtTarget ==
    [][(bt_pc = "running" /\ i' = i + 1 /\ i >= 1 /\ positions # << >>
          /\ ConstantWeights /\ AtTarget(dates[i'])) => trades' = trades]_vars
\* the market data has a close that is not a number
Malformed == \E d \in DOMAIN market : \E t \in DOMAIN market[d] : market[d][t] = NonNumeric

\* C13 (as stated): run checks its inputs before it simulates a date, so with
\* a non-numeric price it fails with no snapshot and no trade recorded, and a
\* run that has not returned has left equity_curve and trades empty.
C13_ChecksInputsFirst ==
    bt_runs = 1 =>
        /\ Malformed => bt_pc # "returned" /\ equity_curve = << >> /\ trades = << >>
        /\ bt_pc \notin {"running", "returned"} => equity_curve = << >> /\ trades = << >>
\* C14 (as stated): a run starts from fresh state, with no snapshot, return
\* or trade of an earlier run on the engine, and a second run on the same
\* inputs returns the equity curve the first one returned.
C14_FreshRun ==
    [][/\ (bt_pc # "running" /\ bt_pc' = "running") =>
              equity_curve' = << >> /\ daily_returns' = << >> /\ trades' = << >>
       /\ (bt_pc = "running" /\ bt_pc' = "returned" /\ equity_df # None) =>
              equity_df' = equity_df]_vars
\* the largest peak-to-trough decline of a sequence of positive values, the
\* first value counted as a possible peak: min over t of v_t / max(v_1..v_t) - 1
PeakBefore(values, t) ==
    values[CHOOSE k \in 1 .. t : \A m \in 1 .. t : RLeq(values[m], values[k])]
PeakToTrough(values) ==
    SeriesMin([t \in 1 .. Len(values) |->
                  RSub(RDiv(values[t], PeakBefore(values, t)), RInt(1))])

\* the metrics of a completed first run in which every date was simulated,
\* with at least two snapshots, all of them positive
MetricsOfPlainRun ==
    /\ metrics # None
    /\ bt_pc = "returned"
    /\ bt_runs = 1
    /\ Len(equity_curve) = Len(dates)
    /\ Len(equity_curve) >= 2
    /\ \A j \in 1 .. Len(equity_curve) : RLess(RInt(0), equity_curve[j].portfolio_value)

\* C15 (as stated): the max_drawdown of get_performance_metrics is the
\* largest peak-to-trough decline of the recorded values v_1..v_n, the first
\* value counted as a possible peak, and it is at most 0.
C15_MaxDrawdown ==
    MetricsOfPlainRun =>
        /\ The(metrics).max_drawdown = PeakToTrough(RecordedValues)
        /\ RLeq(The(metrics).max_drawdown, RInt(0))
\* ====================================================================
\* S3DataLoader.load_csv_from_s3
\* ====================================================================

\* CSV texts: "t1" and "t1q" are two texts of the same table (one of them
\* with quoted fields), "t2" is the text of another table
CsvTexts == {"t1", "t1q", "t2"}
\* pd.read_csv: the frame a text parses to
ReadCsv(text) == IF text = "t2" THEN "f2" ELSE "f1"
\* df.to_csv(index=False): the text pandas writes for a frame
ToCsv(frame) == IF frame = "f2" THEN "t2" ELSE "t1"

TtlValues == 0 .. MaxTtl

\* cache_age_hours <= cache_ttl_hours: a file of exactly the ttl still served
MutCacheIsFreshInclusive(file, now, ttl) ==
    file # None /\ now - The(file).mtime <= ttl

\* os.path.exists(cache_filename) and cache_age_hours < cache_ttl_hours
CacheIsFresh(file, now, ttl) ==
    file # None /\ now - The(file).mtime < ttl

S3Init ==
    /\ s3_object \in {None} \cup {Some(t) : t \in CsvTexts}
    /\ cache_file \in {None} \cup {Some([content |-> ToCsv(f), mtime |-> 0]) : f \in {"f1", "f2"}}
    /\ clock = 0
    /\ s3_requests = 0
    /\ load_args = None
    /\ load_result = None
    /\ load_calls = 0
    /\ PMIdle
    /\ BTIdle
    /\ ColIdle

\* load_csv_from_s3(s3_key, use_cache, cache_ttl_hours)
LoadCsvFromS3(use_cache, cache_ttl_hours) ==
    /\ load_calls < MaxLoads
    /\ load_calls' = load_calls + 1
    /\ load_args' = Some([use_cache |-> use_cache, cache_ttl_hours |-> cache_ttl_hours])
    /\ IF use_cache /\ CacheIsFresh(cache_file, clock, cache_ttl_hours)
       THEN \* served from the cache file
            /\ load_result' = Some([frame |-> ReadCsv(The(cache_file).content)])
            /\ UNCHANGED <<cache_file, s3_requests>>
       ELSE /\ s3_requests' = s3_requests + 1
            /\ IF s3_object = None
               THEN \* get_object raises; the exception is re-raised
                    /\ load_result' = Some([error |-> "Exception"])
                    /\ UNCHANGED cache_file
               ELSE LET df == ReadCsv(The(s3_object))
                    IN  /\ load_result' = Some([frame |-> df])
                        /\ cache_file' = IF use_cache
                                         THEN Some([content |-> ToCsv(df), mtime |-> clock])
                                         ELSE cache_file
    /\ UNCHANGED <<s3_object, clock>>
    /\ UNCHANGED <<pm_vars, bt_vars, col_vars>>

Load == \E use_cache \in BOOLEAN : \E ttl \in TtlValues : LoadCsvFromS3(use_cache, ttl)

\* the environment: an hour passes
Tick ==
    /\ clock < MaxClock
    /\ clock' = clock + 1
    /\ UNCHANGED <<s3_object, cache_file, s3_requests, load_args, load_result, load_calls>>
    /\ UNCHANGED <<pm_vars, bt_vars, col_vars>>

\* the environment: the object in the bucket is replaced or deleted
PutObject ==
    /\ \E o \in {None} \cup {Some(t) : t \in CsvTexts} : o # s3_object /\ s3_object' = o
    /\ UNCHANGED <<cache_file, clock, s3_requests, load_args, load_result, load_calls>>
    /\ UNCHANGED <<pm_vars, bt_vars, col_vars>>

S3Next == Load \/ Tick \/ PutObject

SpecS3 == S3Init /\ [][S3Next]_vars

\* ---- properties of the loader
Loading == load_calls' = load_calls + 1
UseCache == The(load_args').use_cache
Ttl == The(load_args').cache_ttl_hours
ServedFromCache ==
    /\ s3_requests' = s3_requests
    /\ cache_file' = cache_file
    /\ load_result' = Some([frame |-> ReadCsv(The(cache_file).content)])
FetchedFromS3 ==
    /\ s3_requests' = s3_requests + 1
    /\ s3_object # None => load_result' = Some([frame |-> ReadCsv(The(s3_object))])
\* the rules of the cache, but for the second load right after a first
CacheRules ==
    /\ (UseCache /\ cache_file # None /\ clock - The(cache_file).mtime < Ttl) =>
           ServedFromCache
    /\ (UseCache /\ (cache_file = None \/ clock - The(cache_file).mtime >= Ttl)) =>
           /\ FetchedFromS3
           /\ s3_object # None =>
                  /\ cache_file' # None
                  /\ ReadCsv(The(cache_file').content) = ReadCsv(The(s3_object))
                  /\ The(cache_file').mtime = clock
    /\ ~UseCache => FetchedFromS3 /\ cache_file' = cache_file
\* the cache file was written by a load at this very hour
JustLoaded ==
    /\ load_result # None
    /\ "frame" \in DOMAIN The(load_result)
    /\ The(load_args).use_cache
    /\ cache_file # None
    /\ The(cache_file).mtime = clock

\* C16 (as stated): a fresh cache file is returned without a request; a
\* missing or expired one is replaced by what S3 returns; a second load right
\* after a successful first load is served from the cache; without use_cache
\* the file is neither read nor written.
C16_Original ==
    [][Loading => /\ CacheRules
                  /\ (UseCache /\ JustLoaded) => ServedFromCache]_vars

\* C16 (amended): the same, the second load being served from the cache when
\* its cache_ttl_hours is greater than 0.
C16_CacheRules ==
    [][Loading => /\ CacheRules
                  /\ (UseCache /\ JustLoaded /\ Ttl > 0) => ServedFromCache]_vars

\* a second load, right after a first that fetched at hour 1 and wrote the
\* cache file, answered by the cache although the object in the bucket has
\* changed since
C16_Witness ==
    /\ load_calls = 2
    /\ s3_requests = 1
    /\ clock = 1
    /\ The(cache_file).mtime = 1
    /\ The(load_args).use_cache
    /\ cache_file # None
    /\ s3_object # None
    /\ load_result = Some([frame |-> ReadCsv(The(cache_file).content)])
    /\ ReadCsv(The(s3_object)) # ReadCsv(The(cache_file).content)
\* ====================================================================
\* More properties of the combiner
\* ====================================================================

\* the (date, ticker) rows of a table, in its order
IndexOf(t) == [j \in 1 .. Len(t) |-> [date |-> t[j].date, ticker |-> t[j].ticker]]

\* C17: for a top_n_assets other than 0, the combiner's table has exactly the
\* rows of the strategies' tables (the rows of the market data, in its order,
\* when a strategy returns a score for each of them); a NaN score contributes
\* 0 to its row's combined_score, every combined_score is defined, and every
\* row has a rank and a weight.
C17_NaNContributesZero ==
    (Returned /\ top_n_assets # 0) =>
        /\ KeysOf(Table) = UNION {KeysOf(strategy_out[s]) : s \in DOMAIN strategy_out}
        /\ Cardinality(KeysOf(Table)) = Len(Table)
        /\ (\E s \in DOMAIN strategy_out : KeysOf(strategy_out[s]) = KeysOf(data)) =>
               IndexOf(Table) = data
        /\ \A j \in 1 .. Len(Table) :
              /\ \A s \in 1 .. Len(strategies) :
                    Table[j].combined_score[s] =
                        IF Table[j].signal[s] = NaN THEN ZeroTerm ELSE Table[j].normalized[s]
              /\ Table[j].rank \in 1 .. Len(RowsOf(Table[j].date))
              /\ Table[j].weight \in {RInt(0), Rat(1, top_n_assets)}

\* a row whose score is NaN in a column of positive deviation, next to a row
\* of the same date with a negative normalised score: it keeps its place in
\* the table, counts as 0 and has rank 1 and weight 1
C17_Witness ==
    /\ Returned
    /\ top_n_assets = 1
    /\ \E j, k \in 1 .. Len(Table) :
          /\ j < k
          /\ Table[j].date = Table[k].date
          /\ Table[j].signal[1] = NaN
          /\ Table[j].normalized[1] = NaN
          /\ ScoreSign(Table[k].combined_score) < 0
          /\ Table[j].rank = 1
          /\ Table[j].weight = RInt(1)
\* ====================================================================
\* The normalisation of one column in binary floating point
\* (generate_ensemble_signals, lines 74-81, as pandas computes mean and std)
\* ====================================================================

RECURSIVE Pow2(_)
Pow2(k) == IF k = 0 THEN 1 ELSE 2 * Pow2(k - 1)

\* a positive rational a scaled into [2^(Precision-1), 2^Precision):
\* <<a / 2^e, e>>.  (The({f(x) : x \in {v}}) is f(v) with v computed once.)
RECURSIVE Scaled(_, _)
Scaled(a, e) ==
    IF RLeq(RInt(Pow2(Precision)), a)
    THEN The({Scaled(half, e + 1) : half \in {RDiv(a, RInt(2))}})
    ELSE IF RLess(a, RInt(Pow2(Precision - 1)))
    THEN The({Scaled(twice, e - 1) : twice \in {RMul(a, RInt(2))}})
    ELSE <<a, e>>

\* sc = <<a, e>> rounded to an integer significand, with the sign sgn
Nearest(sgn, sc) ==
    LET low == sc[1][1] \div sc[1][2]
        rest == RSub(sc[1], RInt(low))
        up == \/ RLess(Rat(1, 2), rest)
              \/ rest = Rat(1, 2) /\ low % 2 = 1
        m == sgn * (IF up THEN low + 1 ELSE low)
    IN  IF sc[2] >= 0 THEN RInt(m * Pow2(sc[2])) ELSE Rat(m, Pow2(-sc[2]))

\* the float nearest to the rational q: a significand of Precision bits,
\* ties to the even significand (no overflow or underflow at these sizes)
Fl(q) ==
    The({IF x[1] = 0 THEN RInt(0)
         ELSE The({Nearest(Sgn(x[1]), sc) : sc \in {Scaled(RAbs(x), 0)}}) : x \in {q}})

\* values.sum(): the values added one by one, each sum rounded
RECURSIVE FlSumTo(_, _)
FlSumTo(v, k) == IF k = 0 THEN RInt(0) ELSE Fl(RAdd(FlSumTo(v, k - 1), v[k]))

FlSum(s) == The({FlSumTo(v, Len(v)) : v \in {s}})

\* Series.mean(): sum / count over the values that are not NaN; NaN if none
FlMean(col) ==
    IF Valid(col) = << >> THEN NaN
    ELSE Fl(RDiv(FlSum(Valid(col)), RInt(Count(col))))

\* the squared deviations of the values of v from avg, rounded
SquaredDeviations(v, avg) ==
    [j \in 1 .. Len(v) |-> The({Fl(RMul(dev, dev)) : dev \in {Fl(RSub(avg, v[j]))}})]

\* Series.var() (ddof = 1), as nanvar computes it: the squared deviations
\* from sum / count, summed and divided by count - 1; NaN below 2 values
FlVar(col) ==
    IF Count(col) < 2 THEN NaN
    ELSE The({Fl(RDiv(FlSum(SquaredDeviations(v, avg)), RInt(Len(v) - 1))) :
                 v \in {Valid(col)}, avg \in {FlMean(col)}})

\* the constant 0.0 of line 81
ZeroEntry == <<0, 1>>

\* fl(x - mean) / sqrt(var), the quotient left unevaluated: written
\* <<n, d, vn, vd>> for dev = n/d and var = vn/vd; its sign and zeroness
\* are those of dev
Quotient(dev, var) == dev \o var

\* lines 76-81 for one column: an entry of the result is NaN, ZeroEntry or
\* a Quotient
NormalizeFloat(col) ==
    The({IF var # NaN /\ RLess(RInt(0), var)
         THEN [j \in 1 .. Len(col) |->
                  IF col[j] = NaN THEN NaN ELSE Quotient(Fl(RSub(col[j], mean)), var)]
         ELSE [j \in 1 .. Len(col) |-> ZeroEntry] :
            mean \in {FlMean(col)}, var \in {FlVar(col)}})

\* the raw scores: floats of Precision bits, or NaN
FloatScores == {RInt(m) : m \in Pow2(Precision - 1) .. Pow2(Precision) - 1} \cup {NaN}

ColInit ==
    /\ raw_column \in UNION {[1 .. n -> FloatScores] : n \in 1 .. MaxObs}
    /\ normalized_column = None
    /\ PMIdle
    /\ BTIdle
    /\ S3Idle

NormalizeColumn ==
    /\ normalized_column = None
    /\ normalized_column' = Some(NormalizeFloat(raw_column))
    /\ UNCHANGED raw_column
    /\ UNCHANGED <<pm_vars, bt_vars, s3_vars>>

SpecColumn == ColInit /\ [][NormalizeColumn]_vars

\* the raw score is the same value on every observation
ConstantColumn == Cardinality({raw_column[j] : j \in 1 .. Len(raw_column)} \ {NaN}) <= 1

\* C18 (as stated): when a strategy's raw score is the same value on every
\* observation, its normalized contribution is 0 on every row.
C18_ConstantColumnIsZero ==
    (normalized_column # None /\ ConstantColumn) =>
        \A j \in 1 .. Len(raw_column) : The(normalized_column)[j] = ZeroEntry
\* ====================================================================
\* More properties of the simulator
\* ====================================================================

\* shares x close of ticker t, when t is held in ps and has a price in close
HoldingValue(ps, close, t) ==
    IF t \in Held(ps) /\ t \in DOMAIN close
    THEN RMul(PositionOf(ps, t).shares, close[t]) ELSE RInt(0)

\* cash plus the holdings of ps that have a price in close
Valuation(money, ps, close) ==
    RAdd(money, RAdd(HoldingValue(ps, close, "A"), HoldingValue(ps, close, "B")))

\* the step records a snapshot for the date it processes
Records == Len(equity_curve') = Len(equity_curve) + 1

\* C19: the portfolio_value recorded for date d is the cash at the end of
\* the previous processed date (initial_capital on the first) plus
\* shares x close(d) over the positions held then that have a price on d;
\* the trades of d do not enter it.
C19_RecordedValueIsPreTrade ==
    [][Records =>
          LET before == Valuation(cash, positions, market[dates[i + 1]])
          IN  /\ equity_curve'[Len(equity_curve')].portfolio_value = before
              /\ portfolio_value' = before]_vars

\* a second date has been recorded in a first run, a position was held when
\* it began, trades were made on it, and the holdings after those trades
\* are worth something else than the value recorded
C19_Witness ==
    /\ bt_runs = 1
    /\ i = 2
    /\ Len(equity_curve) = 2
    /\ equity_curve[1].num_positions > 0
    /\ \E k \in 1 .. Len(trades) : trades[k].date = dates[2]
    /\ equity_curve[2].portfolio_value # Valuation(cash, positions, market[dates[2]])
\* the step is one iteration of the loop over the dates
Iterates == bt_pc = "running" /\ i' = i + 1

\* the trades the step appends to the log
NewTrades == SubSeq(trades', Len(trades) + 1, Len(trades'))

\* the tickers held before the step that have a price on the step's date
\* and a weight of 0 there, or no row in the weight table
ToClose ==
    LET close == market[dates[i + 1]]
        w == signals[dates[i + 1]]
    IN  {t \in Held(positions) :
            t \in DOMAIN close /\ (t \notin DOMAIN w \/ w[t] = RInt(0))}

\* the net proceeds the claim gives for closing ticker t, 0 for any other
Proceeds(t) ==
    IF t \in ToClose
    THEN RMul(RMul(RMul(PositionOf(positions, t).shares, market[dates[i + 1]][t]),
                   RSub(RInt(1), slippage)),
              RSub(RInt(1), commission))
    ELSE RInt(0)

\* what the logged trades on tickers that are not closed cost in cash
AdjustmentCost(t) ==
    LET mine == SelectSeq(NewTrades, LAMBDA tr : tr.ticker = t)
        gross == RMul(RMul(mine[1].shares, mine[1].price), RAdd(RInt(1), slippage))
        fee == RMul(gross, commission)
    IN  IF t \in ToClose \/ mine = << >> THEN RInt(0)
        ELSE IF mine[1].action = "BUY" THEN RAdd(gross, fee)
        ELSE RSub(fee, gross)

\* the closing of every ticker of ToClose, as the claim describes it
ClosedInFull ==
    /\ \A t \in ToClose :
          LET p == PositionOf(positions, t)
              mine == SelectSeq(NewTrades, LAMBDA tr : tr.ticker = t)
              exit == RMul(market[dates[i + 1]][t], RSub(RInt(1), slippage))
          IN  /\ t \notin Held(positions')
              /\ Len(mine) = 1
              /\ mine[1].action = "SELL"
              /\ mine[1].shares = p.shares
              /\ mine[1].price = exit
              /\ mine[1].pnl = RMul(p.shares, RSub(exit, p.entry_price))
    /\ cash' = RSub(RAdd(cash, RAdd(Proceeds("A"), Proceeds("B"))),
                    RAdd(AdjustmentCost("A"), AdjustmentCost("B")))

\* C20 (as stated): on each date, every held asset with a price that date
\* and a target weight of 0, or missing from the weight table, is fully
\* closed: position removed, cash credited shares x close x (1 - slippage)
\* x (1 - commission), one SELL logged with the whole position, price =
\* close x (1 - slippage), pnl = shares x (exit price - entry price).
C20_Original == [][Iterates => ClosedInFull]_vars

\* C20 (amended): the same on each date that has at least one row in the
\* weight table; on a date without rows nothing is closed.
C20_ClosedInFull ==
    [][Iterates =>
          IF DOMAIN signals[dates[i + 1]] # {}
          THEN ClosedInFull
          ELSE positions' = positions /\ cash' = cash /\ trades' = trades]_vars

\* on the second date of a first run with costs, B was held, had a price and
\* no row in the weight table, and has been sold with a realised loss
C20_Witness ==
    /\ bt_runs = 1
    /\ i = 2
    /\ RLess(RInt(0), commission)
    /\ "B" \in DOMAIN market[dates[2]]
    /\ DOMAIN signals[dates[2]] = {"A"}
    /\ "B" \notin Held(positions)
    /\ \E k \in 1 .. Len(trades) :
          /\ trades[k].date = dates[2]
          /\ trades[k].ticker = "B"
          /\ trades[k].action = "SELL"
          /\ RLess(trades[k].pnl, RInt(0))
\* the closes and the weights of the date the step processes
Today == market[dates[i + 1]]
WeightsToday == signals[dates[i + 1]]

\* the step processes a date that has rows in the weight table
Simulates == Iterates /\ DOMAIN WeightsToday # {}

\* the tickers with a price today and a weight > 0
Wanted ==
    {t \in DOMAIN Today \cap DOMAIN WeightsToday :
        WeightsToday[t] # NaN /\ RLess(RInt(0), WeightsToday[t])}

\* portfolio_value x weight / (close x (1 + slippage)), on the valuation
\* made before the trades
WantedShares(t) ==
    RDiv(RMul(Valuation(cash, positions, Today), WeightsToday[t]),
         RMul(Today[t], RAdd(RInt(1), slippage)))

HeldShares(t) == IF t \in Held(positions) THEN PositionOf(positions, t).shares ELSE RInt(0)

SharesDiff(t) == RSub(WantedShares(t), HeldShares(t))

\* the wanted tickers whose share difference exceeds the threshold
Adjusted == {t \in Wanted : RLess(MinTradeShares, RAbs(SharesDiff(t)))}

\* shares_diff x close x (1 + slippage) + commission x |the same|, 0 for a
\* ticker that is not adjusted
CashSpent(t) ==
    LET gross == RMul(RMul(SharesDiff(t), Today[t]), RAdd(RInt(1), slippage))
    IN  IF t \in Adjusted THEN RAdd(gross, RMul(commission, RAbs(gross))) ELSE RInt(0)

\* C21: every asset with weight > 0 whose share difference exceeds the
\* threshold gets the position (target_shares, today's close), with
\* target_shares = portfolio_value x weight / (close x (1 + slippage)); one
\* trade is logged for it, BUY for a positive difference and SELL for a
\* negative one; cash changes by -(diff x close x (1 + slippage)) -
\* commission x |diff x close x (1 + slippage)| for each of them.
C21_AdjustToTarget ==
    [][Simulates =>
          /\ \A t \in Adjusted :
                LET mine == SelectSeq(NewTrades, LAMBDA tr : tr.ticker = t)
                IN  /\ t \in Held(positions')
                    /\ PositionOf(positions', t).shares = WantedShares(t)
                    /\ PositionOf(positions', t).entry_price = Today[t]
                    /\ Len(mine) = 1
                    /\ mine[1].action =
                          (IF RLess(RInt(0), SharesDiff(t)) THEN "BUY" ELSE "SELL")
                    /\ mine[1].shares = RAbs(SharesDiff(t))
          /\ cash' = RSub(RAdd(cash, RAdd(Proceeds("A"), Proceeds("B"))),
                          RAdd(CashSpent("A"), CashSpent("B")))]_vars

\* on the second date of a first run with costs, A was held at an entry price
\* of 1, has been sold down at a close of 2 and now has the entry price 2
C21_Witness ==
    /\ bt_runs = 1
    /\ i = 2
    /\ RLess(RInt(0), commission)
    /\ Len(positions_history) = 2
    /\ "A" \in Held(positions_history[1].positions)
    /\ PositionOf(positions_history[1].positions, "A").entry_price = RInt(1)
    /\ "A" \in Held(positions)
    /\ PositionOf(positions, "A").entry_price = RInt(2)
    /\ \E k \in 1 .. Len(trades) :
          /\ trades[k].date = dates[2]
          /\ trades[k].ticker = "A"
          /\ trades[k].action = "SELL"
\* the step logs no trade for t and leaves its position, if any, as it was
Untouched(t) ==
    /\ SelectSeq(NewTrades, LAMBDA tr : tr.ticker = t) = << >>
    /\ (t \in Held(positions')) = (t \in Held(positions))
    /\ t \in Held(positions) => PositionOf(positions', t) = PositionOf(positions, t)

\* C22 (as stated): a target asset whose |target_shares - held shares| is
\* below 0.01 is skipped (no trade, same shares and entry price, and cash
\* unchanged when nothing else trades); a trade is logged for every
\* difference of 0.01 shares or more.
C22_ThresholdSkip ==
    [][Simulates =>
          /\ \A t \in Wanted :
                IF RLess(RAbs(SharesDiff(t)), Rat(1, 100))
                THEN Untouched(t)
                ELSE Len(SelectSeq(NewTrades, LAMBDA tr : tr.ticker = t)) = 1
          /\ (ToClose = {} /\ \A t \in Wanted : RLess(RAbs(SharesDiff(t)), Rat(1, 100)))
                => cash' = cash]_vars
\* C23 (as stated): no daily return is recorded for the first snapshot, and
\* for every later snapshot exactly one, equal to (its portfolio_value -
\* the preceding snapshot's) / the preceding snapshot's, also when dates
\* without rows in the weight table lie between or before them: the daily
\* returns are one fewer than the snapshots.  (Stated for a first run.)
C23_DailyReturns ==
    (bt_runs = 1 /\ bt_pc \in {"running", "returned"} /\ equity_curve # << >>) =>
        /\ Len(daily_returns) = Len(equity_curve) - 1
        /\ \A k \in 2 .. Len(equity_curve) :
              LET prev == equity_curve[k - 1].portfolio_value
                  this == equity_curve[k].portfolio_value
              IN  prev[1] # 0 => daily_returns[k - 1] = RDiv(RSub(this, prev), prev)
\* record tr, logged by the step, is the sale of a whole position that the
\* step removes
FullClose(tr) ==
    /\ tr.action = "SELL"
    /\ tr.ticker \in Held(positions)
    /\ tr.ticker \notin Held(positions')
    /\ tr.shares = PositionOf(positions, tr.ticker).shares

\* C24 (as stated): the trade log is append-only; every record is a BUY or a SELL of
\* shares > 0; pnl is 0 on every BUY and on every SELL that adjusts a
\* position, and differs from 0 only on a SELL that closes a whole position.
C24_TradeLog ==
    [][/\ Len(trades') >= Len(trades)
       /\ SubSeq(trades', 1, Len(trades)) = trades
       /\ \A k \in 1 .. Len(NewTrades) :
             LET tr == NewTrades[k]
             IN  /\ tr.action \in {"BUY", "SELL"}
                 /\ RLess(RInt(0), tr.shares)
                 /\ tr.action = "BUY" => tr.pnl = RInt(0)
                 /\ (tr.action = "SELL" /\ tr.ticker \in Held(positions')) => tr.pnl = RInt(0)
                 /\ tr.pnl # RInt(0) => FullClose(tr)]_vars

\* C25 (as stated): after a completed run over a single date,
\* get_performance_metrics returns the metrics and not an error result,
\* with annualized_return equal to total_return and sharpe_ratio 0.
C25_MetricsOfSingleDate ==
    (bt_pc = "returned" /\ Len(dates) = 1 /\ metrics # None) =>
        LET m == The(metrics)
        IN  /\ "error" \notin DOMAIN m
            /\ {"total_return", "annualized_return", "sharpe_ratio"} \subseteq DOMAIN m
            /\ m.annualized_return = m.total_return
            /\ m.sharpe_ratio = RInt(0)
\* ====================================================================
\* S3DataLoader.load_csv_from_s3 with several buckets and keys
\* ====================================================================
\* In SpecS3Keys the loader's variables hold one entry per source or file:
\* s3_object maps <<bucket, key>> to the CSV text of that object, cache_file
\* maps a file name of the working directory to None or the file, and
\* load_args also records the loader's bucket_name and the s3_key.

Buckets == {"bucket1", "bucket2"}
Keys == {"a/NASDAQ.csv", "b/NASDAQ.csv", "a/NYSE.csv"}

\* os.path.basename(s3_key): the part after the last slash
Basename(s3_key) == IF s3_key = "a/NYSE.csv" THEN "NYSE.csv" ELSE "NASDAQ.csv"

CacheFilenames == {Basename(k) : k \in Keys}

S3KeysInit ==
    /\ s3_object \in [Buckets \X Keys -> {"t1", "t2"}]
    /\ cache_file = [f \in CacheFilenames |-> None]
    /\ clock = 0
    /\ s3_requests = 0
    /\ load_args = None
    /\ load_result = None
    /\ load_calls = 0
    /\ PMIdle
    /\ BTIdle
    /\ ColIdle

\* S3DataLoader(bucket_name).load_csv_from_s3(s3_key, use_cache, cache_ttl_hours)
LoadCsvFromBucket(bucket_name, s3_key, use_cache, cache_ttl_hours) ==
    LET cache_filename == Basename(s3_key)
    IN  /\ load_calls < MaxLoads
        /\ load_calls' = load_calls + 1
        /\ load_args' = Some([bucket_name |-> bucket_name, s3_key |-> s3_key,
                               use_cache |-> use_cache,
                               cache_ttl_hours |-> cache_ttl_hours])
        /\ IF use_cache /\ CacheIsFresh(cache_file[cache_filename], clock, cache_ttl_hours)
           THEN \* served from the cache file
                /\ load_result' =
                      Some([frame |-> ReadCsv(The(cache_file[cache_filename]).content)])
                /\ UNCHANGED <<cache_file, s3_requests>>
           ELSE LET df == ReadCsv(s3_object[<<bucket_name, s3_key>>])
                IN  /\ s3_requests' = s3_requests + 1
                    /\ load_result' = Some([frame |-> df])
                    /\ cache_file' =
                          IF use_cache
                          THEN [cache_file EXCEPT
                                   ![cache_filename] =
                                       Some([content |-> ToCsv(df), mtime |-> clock])]
                          ELSE cache_file
        /\ UNCHANGED <<s3_object, clock>>
        /\ UNCHANGED <<pm_vars, bt_vars, col_vars>>

LoadFromAny ==
    \E b \in Buckets : \E k \in Keys : \E use_cache \in BOOLEAN : \E ttl \in TtlValues :
        LoadCsvFromBucket(b, k, use_cache, ttl)

S3KeysNext == LoadFromAny \/ Tick

SpecS3Keys == S3KeysInit /\ [][S3KeysNext]_vars

\* C26 (as stated): the cache is keyed by bucket and full S3 key; a load
\* never returns the content cached by a load of another bucket or key, so
\* (the objects being unchanged) every load returns the table of the object
\* it names.
C26_CacheKeyedBySource ==
    [][Loading =>
          LET a == The(load_args')
          IN  The(load_result').frame = ReadCsv(s3_object[<<a.bucket_name, a.s3_key>>])]_vars
\* ====================================================================
\* Properties of combiner and simulator together
\* ====================================================================

C28_CashNeverNegative ==
    bt_pc \in {"running", "returned"} => RLeq(RInt(0), cash)
\* C29: the trades a date logs carry that date, with every full close of a
\* position that is no longer a target before every open or adjustment of a
\* target; the dates of the log of a run never decrease (stated on the log
\* of a first run, which holds that run's trades only).
C29_ClosesBeforeAdjustments ==
    [][Iterates =>
          /\ \A k \in 1 .. Len(NewTrades) : NewTrades[k].date = dates[i + 1]
          /\ \A k, m \in 1 .. Len(NewTrades) :
                (FullClose(NewTrades[k]) /\ ~FullClose(NewTrades[m])) => k < m
          /\ bt_runs = 1 =>
                \A k \in 1 .. Len(trades') - 1 : trades'[k].date <= trades'[k + 1].date]_vars

\* the log of a first run: A bought on the first date; on the second, A sold
\* in full and then B bought
C29_Witness ==
    /\ bt_runs = 1
    /\ i = 2
    /\ Len(trades) = 3
    /\ trades[1].date = dates[1] /\ trades[1].ticker = "A" /\ trades[1].action = "BUY"
    /\ trades[2].date = dates[2] /\ trades[2].ticker = "A" /\ trades[2].action = "SELL"
    /\ trades[3].date = dates[2] /\ trades[3].ticker = "B" /\ trades[3].action = "BUY"
    /\ Held(positions) = {"B"}
\* ====================================================================
\* Properties of the manager's queries
\* ====================================================================

Asked == The(pm_query).call
Answer == The(pm_query).result

\* C30: before generate_ensemble_signals has completed on the manager,
\* get_portfolio_weights and get_top_assets raise ValueError and summary
\* returns an error result; afterwards get_portfolio_weights(date) returns
\* exactly the assets with weight > 0 on that date, with their weights, and
\* both queries return an empty result for a date that is not in the table.
C30_QueryOrder ==
    pm_query # None =>
        IF ~Returned
        THEN IF Asked.name = "summary"
             THEN "error" \in DOMAIN Answer.returned
             ELSE Answer = [raised |-> "ValueError"]
        ELSE /\ "returned" \in DOMAIN Answer
             /\ Asked.name = "summary" => "error" \notin DOMAIN Answer.returned
             /\ Asked.name = "get_portfolio_weights" =>
                   /\ {Answer.returned[j].ticker : j \in 1 .. Len(Answer.returned)} =
                         {Table[j].ticker : j \in {k \in 1 .. Len(Table) :
                              /\ Table[k].date = Asked.date
                              /\ Table[k].weight # NaN
                              /\ RLess(RInt(0), Table[k].weight)}}
                   /\ \A j \in 1 .. Len(Answer.returned) :
                         \E k \in 1 .. Len(Table) :
                             /\ Table[k].date = Asked.date
                             /\ Table[k].ticker = Answer.returned[j].ticker
                             /\ Table[k].weight = Answer.returned[j].weight
                   /\ \A j, k \in 1 .. Len(Answer.returned) :
                         j # k => Answer.returned[j].ticker # Answer.returned[k].ticker
             /\ (Asked.name # "summary" /\ Asked.date \notin TableDates) =>
                   Answer.returned = << >>

\* after generate_ensemble_signals with top_n_assets = 1, the weights of a
\* date with two assets were asked for and one asset was returned
C30_Witness ==
    /\ Returned
    /\ top_n_assets = 1
    /\ pm_query # None
    /\ Asked.name = "get_portfolio_weights"
    /\ Len(RowsOf(Asked.date)) = 2
    /\ Len(Answer.returned) = 1
====
